---- MODULE Spec2Model ----
(***************************************************************************)
(* Model of the mywebgit server: the repository registry (RepoService),    *)
(* the per-request git handle (GitService) and the request routes that     *)
(* drive them.  Requests are asynchronous handlers: every `await` of the   *)
(* source is a point where another handler may run, so each handler is     *)
(* split into one action per synchronous segment.                          *)
(***************************************************************************)
EXTENDS Integers, Sequences, FiniteSets, TLC

(* ------------------------------ bounds --------------------------------- *)
\* number of registry requests the server receives; all may be in flight at
\* the same time
MaxCalls == 2
\* number of git requests the server receives; all may be in flight at the
\* same time
MaxGitCalls == 2

(* ------------------------------ values --------------------------------- *)
\* paths are strings, modelled as sequences of characters
PA == <<"/", "a">>
PB == <<"/", "b">>
\* PA followed by a blank: a different string with the same trimmed form
PAsp == <<"/", "a", " ">>
NoPath == <<>>
Paths == {PA, PB}

\* the name argument: the empty string is an omitted (falsy) name
NoName == <<>>
NameArgs == {NoName, <<"n">>}
Urls == {"good", "bad"}
Slots == 1..MaxCalls
GSlots == 1..MaxGitCalls
\* the ids a request may name
Ids == {1, 2}

\* data/repos.json: missing, being written (truncated or incomplete, so not
\* parseable), or holding the document {repos: data}
Absent == [st |-> "absent", data |-> <<>>]
Partial == [st |-> "partial", data |-> <<>>]
Stored(rs) == [st |-> "ok", data |-> rs]

VARIABLES
  repos,        \* RepoService.repos: sequence of records
  initialized,  \* RepoService.initialized
  initPromise,  \* RepoService.initPromise: "null", or the stage _doInit is at
  store,        \* data/repos.json: Absent, Partial or Stored(records)
  fs,           \* the paths that are git working copies right now
  nextId,       \* the next uuid
  calls,        \* the number of requests received
  req,          \* the registry requests in order of arrival
  gcalls,       \* the number of git requests received
  greq,         \* the git requests in order of arrival
  xcalls,       \* the number of requests served on the bound handle
  xreq,         \* the request the bound handle is serving
  xhead,        \* the number of commits the requests have created
  wt,           \* the state of each file of the working copy, as status shows it
  local,        \* the local branches of the working copy
  current,      \* the branch that is checked out
  tracking,     \* the remote-tracking branches, <<remote, name>>
  server,       \* the branches each remote repository holds
  scalls,       \* the number of stale-branch requests received
  changes,      \* the number of changes made to the repositories
  sreq,         \* the stale-branch request being served
  sprev,        \* the answer to the stale-branch request before it
  schanged,     \* a repository changed since the request began
  sclean,       \* no repository changed while the request before it ran
  cfile,        \* data/settings.json: absent, partial or the settings stored
  ccalls,       \* the number of settings updates received
  creq,         \* the settings updates in order of arrival
  lcalls,       \* the number of listing and lookup requests received
  lreq          \* the listing or lookup request being served

regvars == <<repos, initialized, initPromise, store, fs, nextId, calls, req>>
gitvars == <<gcalls, greq>>
execvars == <<xcalls, xreq, xhead, wt>>
branchvars == <<local, current, tracking, server, scalls, changes, sreq, sprev,
                schanged, sclean>>
cfgvars == <<cfile, ccalls, creq>>
listvars == <<lcalls, lreq>>
toolvars == <<execvars, branchvars, cfgvars, listvars>>
vars == <<regvars, gitvars, toolvars>>

(* ------------------------------ helpers -------------------------------- *)
RECURSIVE TrimLeft(_)
TrimLeft(s) == IF s # <<>> /\ Head(s) = " " THEN TrimLeft(Tail(s)) ELSE s

RECURSIVE TrimRight(_)
TrimRight(s) ==
  IF s # <<>> /\ s[Len(s)] = " " THEN TrimRight(SubSeq(s, 1, Len(s) - 1)) ELSE s

\* String.prototype.trim
Trim(s) == TrimLeft(TrimRight(s))

\* path.split('/').pop(): the characters after the last "/"
RECURSIVE LastSegment(_)
LastSegment(s) ==
  IF s = <<>> THEN <<>>
  ELSE IF s[Len(s)] = "/" THEN <<>>
  ELSE Append(LastSegment(SubSeq(s, 1, Len(s) - 1)), s[Len(s)])

\* name || path.split('/').pop()
DefaultName(name, path) == IF name # NoName THEN name ELSE LastSegment(path)

IsValidRepo_NoCheck(path) == TRUE
IsValidRepo_NonEmpty(path) == path # NoPath
\* GitService.isValidRepo: false for an empty path and for every failure of
\* `git rev-parse --git-dir` in that directory
IsValidRepo(path) == path # NoPath /\ path \in fs

\* a registry record; addedAt and cloneUrl are never read and are left out
Record(id, path, name) == [id |-> id, path |-> path, name |-> name]

FindIndexById_First(rs, id) == IF Len(rs) > 0 THEN 1 ELSE 0
\* Array.prototype.findIndex, 0 when nothing is found
FindIndexById(rs, id) ==
  IF \E i \in 1..Len(rs) : rs[i].id = id
  THEN CHOOSE i \in 1..Len(rs) : rs[i].id = id /\ \A j \in 1..(i - 1) : rs[j].id # id
  ELSE 0

FindByPath_Never(rs, path) == FALSE
\* this.repos.find(r => r.path === normalizedPath)
FindByPath(rs, path) == \E i \in 1..Len(rs) : rs[i].path = path

Splice_ToEnd(rs, i) == SubSeq(rs, 1, i - 1)
\* this.repos.splice(index, 1)
Splice(rs, i) == SubSeq(rs, 1, i - 1) \o SubSeq(rs, i + 1, Len(rs))

IdleReq == [pc |-> "idle", op |-> "none", id |-> 0, path |-> NoPath, name |-> NoName,
            url |-> "", snap |-> <<>>, result |-> "none"]

\* the response of request r is sent; its arguments are no longer needed
Finish(r, res) ==
  [req EXCEPT ![r] = [IdleReq EXCEPT !.pc = "done", !.op = req[r].op, !.result = res]]

\* RepoService.save as called by request r: the document is serialised now,
\* the file is opened for writing (truncated) and the write completes later
SaveBy(r, rs) ==
  /\ store' = Partial
  /\ req' = [req EXCEPT ![r].pc = "saving", ![r].snap = rs]

IdleGit == [pc |-> "idle", op |-> "none", repoId |-> 0, path |-> NoPath,
            exit |-> "none", resp |-> "none"]

(* --------------------------- initial state ----------------------------- *)
\* what an earlier run of the server can have left in data/repos.json
InitStores ==
  {Absent, Stored(<<Record(1, PA, <<"a">>)>>),
   Stored(<<Record(1, PA, <<"a">>), Record(2, PB, <<"b">>)>>)}

(* ------------------- requests on a bound handle ------------------------ *)
\* the markers a failure text of the underlying tool may carry; a text is
\* modelled by the set of markers that occur in it
LockMarker == "index.lock"
ConflictMarker == "CONFLICT"
Texts == SUBSET {LockMarker, ConflictMarker}
\* String.prototype.includes
Includes(text, marker) == marker \in text

\* error messages: none, the text of the tool's failure, the fixed text of
\* the lock-file error, and the texts of the routes' 400 answers
NoError == [kind |-> "none", text |-> {}]
ToolError(text) == [kind |-> "tool", text |-> text]
LockedError == [kind |-> "locked", text |-> {LockMarker}]
RequiredError == [kind |-> "required", text |-> {}]

ClassifyingOps == {"status", "checkout"}
ConflictOps == {"merge", "rebase"}
PlainOps == {"commit", "rebaseAbort", "rebaseContinue"}
ArgOps == {"checkout", "commit", "merge", "rebase"}
ExecOps == ClassifyingOps \cup ConflictOps \cup PlainOps \cup {"log"}
\* a request's message or branch: missing or empty, or given
ArgValues == {"", "v"}

NoSel == [cached |-> FALSE, file |-> FALSE, commit1 |-> FALSE, commit2 |-> FALSE]
Selectors == [cached : BOOLEAN, file : BOOLEAN, commit1 : BOOLEAN, commit2 : BOOLEAN]
NoResp == [status |-> 0, success |-> FALSE, conflict |-> FALSE, error |-> NoError,
           body |-> "none", fields |-> {}]
IdleX == [pc |-> "idle", op |-> "none", arg |-> "", names |-> <<>>, sel |-> NoSel,
          limit |-> "", maxCount |-> 0, returned |-> 0,
          kind |-> "none", commit |-> "", mode |-> "", files |-> {}, pathspec |-> {},
          inv |-> <<>>, results |-> <<>>, resp |-> NoResp]
\* the files of the working copy
Files == {"a.txt", "b.txt"}
\* a file is unchanged, modified and not staged, modified and staged, new and
\* untracked, or new and staged
FileStates == {"clean", "modified", "staged", "untracked", "added"}
WorkTrees == [Files -> FileStates]
\* a.txt modified and not staged, b.txt new and untracked
Scenario == [f \in Files |-> IF f = "a.txt" THEN "modified" ELSE "untracked"]
IdleExec == xcalls = 0 /\ xreq = IdleX /\ xhead = 0

(* ------------------------- stale branches ------------------------------ *)
Names == {"Main", "feat", "fix"}
Remotes == {"origin", "up"}
\* String.prototype.toLowerCase on the names above
ToLowerCase(name) == IF name = "Main" THEN "main" ELSE name
protectedBranches == {"main", "master", "develop", "dev"}
NoResult == [ok |-> FALSE, remote |-> "", staleBranches |-> {}, currentBranch |-> ""]
IdleS == [pc |-> "idle", remote |-> "", localRead |-> {}, currentRead |-> "",
          result |-> NoResult, status |-> 0]
IdleStale ==
  /\ local = Names /\ current = "feat"
  /\ tracking = {<<"origin", "Main">>, <<"origin", "feat">>, <<"up", "fix">>}
  /\ server = [r \in Remotes |-> IF r = "origin" THEN {"Main", "feat"} ELSE {}]
  /\ scalls = 0 /\ changes = 0 /\ sreq = IdleS /\ sprev = NoResult
  /\ schanged = FALSE /\ sclean = FALSE

(* ----------------------------- settings -------------------------------- *)
MaxPuts == 2
CSlots == 1..MaxPuts
Keys == {"theme", "editor"}
PutValues == {"dark", "mono"}
\* the bodies of PUT /api/config: a value for some of the keys
Bodies == UNION {[D -> PutValues] : D \in SUBSET Keys}
NoSettings == [k \in {} |-> "light"]
AbsentFile == [st |-> "absent", data |-> NoSettings]
PartialFile == [st |-> "partial", data |-> NoSettings]
StoredFile(d) == [st |-> "ok", data |-> d]
IdleC == [pc |-> "idle", body |-> NoSettings, exists |-> FALSE, existing |-> NoSettings,
          snap |-> NoSettings, status |-> 0]
\* what an earlier run can have left in data/settings.json
InitFiles == {AbsentFile, StoredFile([k \in {"theme"} |-> "light"])}
NoPuts == ccalls = 0 /\ creq = [c \in CSlots |-> IdleC]
IdleCfg == cfile = AbsentFile /\ NoPuts

(* ------------------------ listing and lookup --------------------------- *)
IdleL == [pc |-> "idle", op |-> "none", id |-> 0, i |-> 0, out |-> <<>>,
          status |-> 0]
IdleList == lcalls = 0 /\ lreq = IdleL

Init ==
  /\ repos = <<>>
  /\ initialized = FALSE
  /\ initPromise = "null"
  /\ store \in InitStores
  /\ fs = {PA, PB}
  /\ nextId = Len(store.data) + 1
  /\ calls = 0
  /\ req = [r \in Slots |-> IdleReq]
  /\ gcalls = 0
  /\ greq = [g \in GSlots |-> IdleGit]
  /\ IdleExec /\ wt = Scenario
  /\ IdleStale
  /\ IdleCfg /\ IdleList

(* ------------------------- RepoService.init ---------------------------- *)
\* request r arrives: the requests are numbered in order of arrival
Arrives(r) == calls < MaxCalls /\ r = calls + 1 /\ calls' = calls + 1

\* init(): the first caller starts _doInit, which awaits ensureDir and pathExists
InitNeeded_NoPromise == ~initialized
\* init() goes on to _doInit: not initialized and no initPromise yet
InitNeeded == ~initialized /\ initPromise = "null"
InitStart ==
  /\ \/ \E r \in Slots : req[r].pc = "init"
     \/ \E g \in GSlots : greq[g].pc = "getById"
     \/ lreq.pc = "init"
  /\ InitNeeded
  /\ initPromise' = "pathExists"
  /\ UNCHANGED <<repos, initialized, store, fs, nextId, calls, req, gitvars, toolvars>>

\* _doInit after pathExists: read the file, or start from an empty list and save
InitExists ==
  /\ initPromise = "pathExists"
  /\ IF store.st # "absent"
     THEN /\ initPromise' = "readJson"
          /\ UNCHANGED <<repos, store>>
     ELSE /\ repos' = <<>>
          /\ store' = Partial
          /\ initPromise' = "save"
  /\ UNCHANGED <<initialized, fs, nextId, calls, req, gitvars, toolvars>>

\* readJson succeeded: this.repos = data.repos || []
InitRead ==
  /\ initPromise = "readJson"
  /\ store.st = "ok"
  /\ repos' = store.data
  /\ initialized' = TRUE
  /\ initPromise' = "settled"
  /\ UNCHANGED <<store, fs, nextId, calls, req, gitvars, toolvars>>

\* readJson threw (unreadable or unparseable file): the catch block
InitReadFail ==
  /\ initPromise = "readJson"
  /\ repos' = <<>>
  /\ initialized' = TRUE
  /\ initPromise' = "settled"
  /\ UNCHANGED <<store, fs, nextId, calls, req, gitvars, toolvars>>

\* the save of _doInit completed
InitSaved ==
  /\ initPromise = "save"
  /\ store' = Stored(<<>>)
  /\ initialized' = TRUE
  /\ initPromise' = "settled"
  /\ UNCHANGED <<repos, fs, nextId, calls, req, gitvars, toolvars>>

(* ------------------------------ add ------------------------------------ *)
\* POST /api/repos: a missing path is answered 400, else repoService.add runs
\* up to `await this.init()`
CallAdd(r, path, name) ==
  /\ Arrives(r)
  /\ IF path = NoPath
     THEN req' = [req EXCEPT ![r] = [IdleReq EXCEPT !.pc = "done", !.op = "add",
                                       !.result = "PathRequired"]]
     ELSE req' = [req EXCEPT ![r] = [IdleReq EXCEPT !.pc = "init", !.op = "add",
                                       !.path = path, !.name = name]]
  /\ UNCHANGED <<repos, initialized, initPromise, store, fs, nextId, gitvars, toolvars>>

\* add after init: normalise the path and await isValidRepo
AddNormalize(r) ==
  /\ req[r].pc = "init" /\ req[r].op = "add"
  /\ initialized
  /\ req' = [req EXCEPT ![r].pc = "validating", ![r].path = Trim(req[r].path)]
  /\ UNCHANGED <<repos, initialized, initPromise, store, fs, nextId, calls, gitvars, toolvars>>

\* add after isValidRepo: the validity and duplicate checks, push and save
AddChecked(r) ==
  /\ req[r].pc = "validating" /\ req[r].op = "add"
  /\ IF ~IsValidRepo(req[r].path)
     THEN /\ req' = Finish(r, "InvalidPath")
          /\ UNCHANGED <<repos, store, nextId>>
     ELSE IF FindByPath(repos, req[r].path)
     THEN /\ req' = Finish(r, "Duplicate")
          /\ UNCHANGED <<repos, store, nextId>>
     ELSE /\ repos' = Append(repos, Record(nextId, req[r].path,
                                           DefaultName(req[r].name, req[r].path)))
          /\ nextId' = nextId + 1
          /\ SaveBy(r, repos')
  /\ UNCHANGED <<initialized, initPromise, fs, calls, gitvars, toolvars>>

(* ----------------------------- remove ---------------------------------- *)
CallRemove(r, id) ==
  /\ Arrives(r)
  /\ req' = [req EXCEPT ![r] = [IdleReq EXCEPT !.pc = "init", !.op = "remove", !.id = id]]
  /\ UNCHANGED <<repos, initialized, initPromise, store, fs, nextId, gitvars, toolvars>>

\* remove after init: findIndex, splice and save
RemoveRun(r) ==
  /\ req[r].pc = "init" /\ req[r].op = "remove"
  /\ initialized
  /\ LET index == FindIndexById(repos, req[r].id) IN
     IF index = 0
     THEN /\ req' = Finish(r, "NotFound")
          /\ UNCHANGED <<repos, store>>
     ELSE /\ repos' = Splice(repos, index)
          /\ SaveBy(r, repos')
  /\ UNCHANGED <<initialized, initPromise, fs, nextId, calls, gitvars, toolvars>>

(* ----------------------------- update ---------------------------------- *)
CallUpdate(r, id, name, path) ==
  /\ Arrives(r)
  /\ req' = [req EXCEPT ![r] = [IdleReq EXCEPT !.pc = "init", !.op = "update", !.id = id,
                                  !.name = name, !.path = path]]
  /\ UNCHANGED <<repos, initialized, initPromise, store, fs, nextId, gitvars, toolvars>>

\* the record object `repo` of an update is still an element of this.repos
SetField(rs, id, f, v) ==
  [i \in 1..Len(rs) |-> IF rs[i].id = id THEN [rs[i] EXCEPT ![f] = v] ELSE rs[i]]

\* update after init: find the record, apply the name, then either await
\* isValidRepo (a path was given) or save
UpdateRun(r) ==
  /\ req[r].pc = "init" /\ req[r].op = "update"
  /\ initialized
  /\ IF FindIndexById(repos, req[r].id) = 0
     THEN /\ req' = Finish(r, "NotFound")
          /\ UNCHANGED <<repos, store>>
     ELSE /\ repos' = IF req[r].name # NoName
                      THEN SetField(repos, req[r].id, "name", req[r].name)
                      ELSE repos
          /\ IF req[r].path # NoPath
             THEN /\ req' = [req EXCEPT ![r].pc = "validating"]
                  /\ UNCHANGED store
             ELSE SaveBy(r, repos')
  /\ UNCHANGED <<initialized, initPromise, fs, nextId, calls, gitvars, toolvars>>

\* update after isValidRepo: reject, or set the path and save
UpdateChecked(r) ==
  /\ req[r].pc = "validating" /\ req[r].op = "update"
  /\ IF ~IsValidRepo(req[r].path)
     THEN /\ req' = Finish(r, "InvalidPath")
          /\ UNCHANGED <<repos, store>>
     ELSE /\ repos' = SetField(repos, req[r].id, "path", req[r].path)
          /\ SaveBy(r, repos')
  /\ UNCHANGED <<initialized, initPromise, fs, nextId, calls, gitvars, toolvars>>

(* ------------------------------ clone ---------------------------------- *)
\* POST /api/repos/clone: url and path are required
CallClone(r, url, path, name) ==
  /\ Arrives(r)
  /\ IF url = "" \/ path = NoPath
     THEN req' = [req EXCEPT ![r] = [IdleReq EXCEPT !.pc = "done", !.op = "clone",
                                       !.result = "UrlPathRequired"]]
     ELSE req' = [req EXCEPT ![r] = [IdleReq EXCEPT !.pc = "init", !.op = "clone",
                                       !.url = url, !.path = path, !.name = name]]
  /\ UNCHANGED <<repos, initialized, initPromise, store, fs, nextId, gitvars, toolvars>>

\* clone after init: await GitService.clone
CloneRun(r) ==
  /\ req[r].pc = "init" /\ req[r].op = "clone"
  /\ initialized
  /\ req' = [req EXCEPT ![r].pc = "cloning"]
  /\ UNCHANGED <<repos, initialized, initPromise, store, fs, nextId, calls, gitvars, toolvars>>

\* `git clone url targetPath` fails for an unreachable url and for a target
\* that already holds a working copy
GitCloneOk(url, path) == url = "good" /\ path \notin fs

\* clone after GitService.clone: on failure the error propagates; on success
\* the working copy exists, the record is pushed and saved
CloneDone(r) ==
  /\ req[r].pc = "cloning" /\ req[r].op = "clone"
  /\ IF ~GitCloneOk(req[r].url, req[r].path)
     THEN /\ req' = Finish(r, "CloneFailed")
          /\ UNCHANGED <<repos, store, fs, nextId>>
     ELSE /\ fs' = fs \cup {req[r].path}
          /\ repos' = Append(repos, Record(nextId, req[r].path,
                                           DefaultName(req[r].name, req[r].path)))
          /\ nextId' = nextId + 1
          /\ SaveBy(r, repos')
  /\ UNCHANGED <<initialized, initPromise, calls, gitvars, toolvars>>

(* ------------------------- save completion ----------------------------- *)
\* the writeJson started by request r completes: the file now holds the
\* document serialised when save was called, and the method returns
WriteDone(r) ==
  /\ req[r].pc = "saving"
  /\ store' = Stored(req[r].snap)
  /\ req' = Finish(r, "ok")
  /\ UNCHANGED <<repos, initialized, initPromise, fs, nextId, calls, gitvars, toolvars>>

(* --------------------------- environment ------------------------------- *)
\* the working copies that may be deleted from outside
Deletable == {PA}

\* a working copy is deleted from outside the server
ExternalDelete(p) ==
  /\ p \in fs
  /\ fs' = fs \ {p}
  /\ UNCHANGED <<repos, initialized, initPromise, store, nextId, calls, req, gitvars, toolvars>>

(* -------------------------- specification ------------------------------ *)
Next ==
  \/ InitStart
  \/ InitExists
  \/ InitRead
  \/ InitReadFail
  \/ InitSaved
  \/ \E r \in Slots, path \in Paths \cup {NoPath, PAsp}, name \in NameArgs : CallAdd(r, path, name)
  \/ \E r \in Slots : AddNormalize(r)
  \/ \E r \in Slots : AddChecked(r)
  \/ \E r \in Slots, id \in Ids : CallRemove(r, id)
  \/ \E r \in Slots : RemoveRun(r)
  \/ \E r \in Slots, id \in Ids, name \in NameArgs, path \in Paths \cup {NoPath} : CallUpdate(r, id, name, path)
  \/ \E r \in Slots : UpdateRun(r)
  \/ \E r \in Slots : UpdateChecked(r)
  \/ \E r \in Slots, url \in Urls, path \in Paths, name \in {NoName} : CallClone(r, url, path, name)
  \/ \E r \in Slots : CloneRun(r)
  \/ \E r \in Slots : CloneDone(r)
  \/ \E r \in Slots : WriteDone(r)
  \/ \E p \in Deletable : ExternalDelete(p)

Spec == Init /\ [][Next]_vars

(* ------------------------- git request routes -------------------------- *)
\* the operations modelled: one read-only and two mutating ones
ReadOnlyOps == {"status"}
MutatingOps == {"commit", "merge"}
GitOps == ReadOnlyOps \cup MutatingOps
\* the repoId a request may carry
NoRepoId == 0
RepoIdArgs == {NoRepoId, 1, 2, 3}
\* how the underlying tool ends: success, or a failure whose text carries the
\* lock-file marker, the conflict marker or neither
Exits == {"ok", "lock", "conflict", "other"}

\* simpleGit(repoPath, {maxConcurrentProcesses: 6}): the tasks one handle
\* runs at a time
maxConcurrentProcesses == 6

\* RepoService.getGitService: every request gets a GitService of its own,
\* which is named by the request
HandleOf(g) == g

\* the underlying-tool invocations in flight on a handle
RunningOn(h) == {g \in GSlots : greq[g].pc = "running" /\ HandleOf(g) = h}

CanStart_GlobalLock(g) == \A g2 \in GSlots : greq[g2].pc # "running"
CanStart_ConflictKeepsLock(g) ==
  \A g2 \in GSlots \ {g} :
    greq[g2].path = greq[g].path =>
      /\ greq[g2].pc # "running"
      /\ ~(greq[g2].pc = "done" /\ greq[g2].resp = "conflict")
\* the scheduler of a handle starts a queued task while fewer than
\* maxConcurrentProcesses of the handle's tasks run
CanStart(g) == Cardinality(RunningOn(HandleOf(g))) < maxConcurrentProcesses

\* what the executor and its route answer when the tool ends with `exit`:
\* getStatus reclassifies the lock marker, merge the conflict marker, commit
\* nothing
Response(op, exit) ==
  IF exit = "ok" THEN "success"
  ELSE IF op = "status" /\ exit = "lock" THEN "IndexLocked"
  ELSE IF op = "merge" /\ exit = "conflict" THEN "conflict"
  ELSE "error"

\* a git request arrives; getRepoMiddleware answers 400 when the request
\* names no repository and otherwise awaits repoService.getById
GitCall(g, op, id) ==
  /\ gcalls < MaxGitCalls /\ g = gcalls + 1
  /\ gcalls' = gcalls + 1
  /\ IF id = NoRepoId
     THEN greq' = [greq EXCEPT ![g] = [IdleGit EXCEPT !.pc = "done", !.op = op,
                                                      !.resp = "RepoIdRequired"]]
     ELSE greq' = [greq EXCEPT ![g] = [IdleGit EXCEPT !.pc = "getById", !.op = op,
                                                      !.repoId = id]]
  /\ UNCHANGED <<regvars, toolvars>>

\* getRepoMiddleware after getById: 404 for an unknown id; otherwise the
\* handle is bound to the record's path and the route handler calls its
\* executor, which hands the invocation to the handle's scheduler
Middleware(g) ==
  /\ greq[g].pc = "getById"
  /\ initialized
  /\ LET index == FindIndexById(repos, greq[g].repoId) IN
     IF index = 0
     THEN greq' = [greq EXCEPT ![g].pc = "done", ![g].resp = "NotFound"]
     ELSE greq' = [greq EXCEPT ![g].pc = "queued", ![g].path = repos[index].path]
  /\ UNCHANGED <<regvars, gcalls, toolvars>>

\* the underlying-tool invocation of request g is spawned
ToolStart(g) ==
  /\ greq[g].pc = "queued"
  /\ CanStart(g)
  /\ greq' = [greq EXCEPT ![g].pc = "running"]
  /\ UNCHANGED <<regvars, gcalls, toolvars>>

\* the invocation ends and the response is sent
ToolExit(g, exit) ==
  /\ greq[g].pc = "running"
  /\ greq' = [greq EXCEPT ![g].pc = "done", ![g].exit = exit,
                          ![g].resp = Response(greq[g].op, exit)]
  /\ UNCHANGED <<regvars, gcalls, toolvars>>

\* the server starts with a registry file of two records, or with none
InitGit ==
  /\ repos = <<>>
  /\ initialized = FALSE
  /\ initPromise = "null"
  /\ store \in {Absent, Stored(<<Record(1, PA, <<"a">>), Record(2, PB, <<"b">>)>>)}
  /\ fs = {PA, PB}
  /\ nextId = Len(store.data) + 1
  /\ calls = 0
  /\ req = [r \in Slots |-> IdleReq]
  /\ gcalls = 0
  /\ greq = [g \in GSlots |-> IdleGit]
  /\ IdleExec /\ wt = Scenario
  /\ IdleStale
  /\ IdleCfg /\ IdleList

NextGit ==
  \/ InitStart
  \/ InitExists
  \/ InitRead
  \/ InitReadFail
  \/ InitSaved
  \/ \E g \in GSlots, op \in GitOps, id \in RepoIdArgs : GitCall(g, op, id)
  \/ \E g \in GSlots : Middleware(g)
  \/ \E g \in GSlots : ToolStart(g)
  \/ \E g \in GSlots, exit \in Exits : ToolExit(g, exit)

SpecGit == InitGit /\ [][NextGit]_vars

\* the event loop runs every continuation that is ready and the scheduler
\* spawns every task it may start; nothing makes the underlying tool exit
FairGit ==
  /\ WF_vars(InitStart) /\ WF_vars(InitExists) /\ WF_vars(InitRead \/ InitReadFail)
  /\ WF_vars(InitSaved)
  /\ \A g \in GSlots : WF_vars(Middleware(g)) /\ WF_vars(ToolStart(g))

SpecGitLive == InitGit /\ [][NextGit]_vars /\ FairGit

(* ---------------- the executors of a bound handle ----------------------- *)
MaxExecCalls == 2
MaxNames == 2
BranchNames == {"x", "y"}
NameLists == UNION {[1..n -> BranchNames] : n \in 0..MaxNames}

\* what an executor hands to its route: a value, or a thrown error
Returned(success, conflict, message, body) ==
  [thrown |-> FALSE, success |-> success, conflict |-> conflict, error |-> message,
   body |-> body]
Thrown(err) ==
  [thrown |-> TRUE, success |-> FALSE, conflict |-> FALSE, error |-> err, body |-> "none"]

\* the catch block of getStatus and of checkout
LockRule(text) ==
  IF Includes(text, LockMarker) THEN Thrown(LockedError) ELSE Thrown(ToolError(text))
ConflictRule_Always(text) == Returned(FALSE, TRUE, ToolError(text), "none")
\* the catch block of merge and of rebase
ConflictRule(text) ==
  IF Includes(text, ConflictMarker)
  THEN Returned(FALSE, TRUE, ToolError(text), "none")
  ELSE Thrown(ToolError(text))
Unconditional_Classifies(text) == ConflictRule(text)
\* commit, rebaseAbort, rebaseContinue and getDiff catch nothing
Unconditional(text) == Thrown(ToolError(text))
Swallow_Rethrows(text) == Thrown(ToolError(text))
\* the catch block of getLog: { commits: [], total: 0 }
Swallow(text) == Returned(TRUE, FALSE, NoError, "empty")

Executor(op, ok, text) ==
  IF ok THEN Returned(TRUE, FALSE, NoError, "result")
  ELSE IF op \in ClassifyingOps THEN LockRule(text)
  ELSE IF op \in ConflictOps THEN ConflictRule(text)
  ELSE IF op = "log" THEN Swallow(text)
  ELSE Unconditional(text)

\* the route's answer: merge and rebase send the executor's value as it is,
\* the other routes wrap it in { success: true }; a thrown error is a 500
ValueFields_NoFlag(out) == IF out.conflict THEN {"message"} ELSE {"success", "result"}
\* the keys of the value merge and rebase return
ValueFields(out) ==
  IF out.conflict THEN {"success", "conflict", "message"} ELSE {"success", "result"}
\* the keys of the JSON document a route sends
Fields(op, out) ==
  IF out.thrown THEN {"success", "error"}
  ELSE IF op \in ConflictOps THEN ValueFields(out)
  ELSE {"success", "result"}
Reply(op, out) ==
  IF out.thrown
  THEN [status |-> 500, success |-> FALSE, conflict |-> FALSE, error |-> out.error,
        body |-> "none", fields |-> Fields(op, out)]
  ELSE [status |-> 200, success |-> IF op \in ConflictOps THEN out.success ELSE TRUE,
        conflict |-> out.conflict, error |-> out.error, body |-> out.body,
        fields |-> Fields(op, out)]
BadRequest ==
  [status |-> 400, success |-> FALSE, conflict |-> FALSE, error |-> RequiredError,
   body |-> "none", fields |-> {"success", "error"}]

Missing_Never(arg) == FALSE
\* !message, !branch
Missing(arg) == arg = ""

\* the simple-git call an executor makes
Cmd(op) ==
  IF op = "rebaseAbort" THEN "rebase --abort"
  ELSE IF op = "rebaseContinue" THEN "rebase --continue"
  ELSE op
Invocation(cmd, arg) == [cmd |-> cmd, arg |-> arg, res |-> "pending", text |-> {}]
Ended(i, ok, text) == [i EXCEPT !.res = IF ok THEN "ok" ELSE "fail", !.text = text]

\* getDiff: the arguments of its one git.diff call
DiffArgs(options) ==
  IF options.cached THEN "--cached"
  ELSE IF options.file THEN "file"
  ELSE IF options.commit1 /\ options.commit2 THEN "commit1 commit2"
  ELSE ""

LoopGoesOn_UntilFailure(names, results) ==
  Len(results) < Len(names) /\ results[Len(results)].success
\* for (const name of branchNames)
LoopGoesOn(names, results) == Len(results) < Len(names)

\* a request for status, checkout, commit, merge, rebase, abort, continue or
\* log reaches its route with a bound handle
XCall(op, arg) ==
  /\ xcalls < MaxExecCalls /\ xreq.pc \in {"idle", "done"}
  /\ op \in ArgOps \/ arg = ""
  /\ op # "log"
  /\ xcalls' = xcalls + 1
  /\ IF op \in ArgOps /\ Missing(arg)
     THEN xreq' = [IdleX EXCEPT !.pc = "done", !.op = op, !.arg = arg, !.resp = BadRequest]
     ELSE xreq' = [IdleX EXCEPT !.pc = "tool", !.op = op, !.arg = arg,
                                !.inv = <<Invocation(Cmd(op), arg)>>]
  /\ UNCHANGED <<xhead, wt, regvars, gitvars, branchvars, cfgvars, listvars>>

\* the limit of a log request as the query string has it: absent, or a numeral
LimitArgs == {"", "0", "1", "2"}
\* parseInt: NaN for an absent limit, else the number the numeral stands for
ParseInt(str) ==
  IF str = "" THEN [nan |-> TRUE, n |-> 0]
  ELSE IF str = "0" THEN [nan |-> FALSE, n |-> 0]
  ELSE IF str = "1" THEN [nan |-> FALSE, n |-> 1]
  ELSE [nan |-> FALSE, n |-> 2]
\* parseInt(req.query.limit) || 100, and options.maxCount || 100
OrDefault(v) == IF v.nan \/ v.n = 0 THEN 100 ELSE v.n
\* the commits the repository has
LogLen == 3
\* git log --max-count
Min(a, b) == IF a < b THEN a ELSE b

\* GET /log: the route parses the limit and getLog calls git.log
XLog(limit) ==
  /\ xcalls < MaxExecCalls /\ xreq.pc \in {"idle", "done"}
  /\ xcalls' = xcalls + 1
  /\ xreq' = [IdleX EXCEPT !.pc = "tool", !.op = "log", !.limit = limit,
                           !.maxCount = OrDefault([nan |-> FALSE,
                                                   n |-> OrDefault(ParseInt(limit))]),
                           !.inv = <<Invocation("log", "")>>]
  /\ UNCHANGED <<xhead, wt, regvars, gitvars, branchvars, cfgvars, listvars>>

\* the mode of a reset request: none given, or one of the three
ModeArgs == {"", "soft", "mixed", "hard"}
\* the `modes` table of resetTo
ModeFlag(mode) ==
  IF mode = "soft" THEN "--soft" ELSE IF mode = "mixed" THEN "--mixed" ELSE "--hard"
\* resetTo(commit, mode = 'soft')
DefaultMode(mode) == IF mode = "" THEN "soft" ELSE mode
\* mode || 'mixed'
OrMixed(mode) == IF mode = "" THEN "mixed" ELSE mode
\* the handlers registered for POST /reset, in the order of registration
ResetHandlers == <<"unstage", "resetTo">>
\* the router runs the first handler registered for the method and path;
\* that handler answers and never calls next()
Dispatch(handlers) == Head(handlers)
SomeFiles_Always(files) == TRUE
\* files && files.length > 0
SomeFiles(files) == files # {}

\* GitService.resetTo called by a user of the executor
XResetTo(mode) ==
  /\ xcalls < MaxExecCalls /\ xreq.pc \in {"idle", "done"}
  /\ xcalls' = xcalls + 1
  /\ xreq' = [IdleX EXCEPT !.pc = "tool", !.op = "resetTo", !.kind = "direct",
                           !.commit = "c", !.mode = mode,
                           !.inv = <<Invocation("reset", ModeFlag(DefaultMode(mode)))>>]
  /\ UNCHANGED <<xhead, wt, regvars, gitvars, branchvars, cfgvars, listvars>>

\* POST /reset: a request to unstage files, kind "unstage" with body {files},
\* or to reset to a commit, kind "resetToCommit" with body {commit, mode}
XPostReset(kind, commit, mode, files) ==
  /\ xcalls < MaxExecCalls /\ xreq.pc \in {"idle", "done"}
  /\ \/ kind = "unstage" /\ commit = "" /\ mode = ""
     \/ kind = "resetToCommit" /\ files = {}
  /\ xcalls' = xcalls + 1
  /\ LET x == [IdleX EXCEPT !.kind = kind, !.commit = commit, !.mode = mode,
                            !.files = files] IN
     IF Dispatch(ResetHandlers) = "unstage"
     THEN xreq' = [x EXCEPT !.pc = "tool", !.op = "unstage",
                     !.pathspec = IF SomeFiles(files) THEN files ELSE Files,
                     !.inv = <<Invocation("reset HEAD",
                                          IF SomeFiles(files) THEN "-- files" ELSE "")>>]
     ELSE IF Missing(commit)
     THEN xreq' = [x EXCEPT !.pc = "done", !.op = "resetTo", !.resp = BadRequest]
     ELSE xreq' = [x EXCEPT !.pc = "tool", !.op = "resetTo",
                     !.inv = <<Invocation("reset", ModeFlag(DefaultMode(OrMixed(mode))))>>]
  /\ UNCHANGED <<xhead, wt, regvars, gitvars, branchvars, cfgvars, listvars>>

\* git add <pathspec>: the changes of the files named become staged
GitAdd(w, pathspec) ==
  [f \in Files |->
     IF f \notin pathspec THEN w[f]
     ELSE IF w[f] = "modified" THEN "staged"
     ELSE IF w[f] = "untracked" THEN "added"
     ELSE w[f]]
\* git reset HEAD [-- <pathspec>]: the files named leave the index
GitResetHead(w, pathspec) ==
  [f \in Files |->
     IF f \notin pathspec THEN w[f]
     ELSE IF w[f] = "staged" THEN "modified"
     ELSE IF w[f] = "added" THEN "untracked"
     ELSE w[f]]
\* git reset --soft | --mixed | --hard <commit>, as far as status shows it:
\* soft keeps index and files, mixed empties the index, hard also drops the
\* changes of tracked files
GitResetTo(w, flag) ==
  IF flag = "--soft" THEN w
  ELSE IF flag = "--mixed" THEN GitResetHead(w, Files)
  ELSE [f \in Files |-> IF w[f] = "untracked" THEN "untracked" ELSE "clean"]

\* what the invocation of request x does to the working copy when it succeeds
Effect(x, w) ==
  IF x.op = "stage" THEN GitAdd(w, x.pathspec)
  ELSE IF x.op = "unstage" THEN GitResetHead(w, x.pathspec)
  ELSE IF x.op = "resetTo" THEN GitResetTo(w, x.inv[1].arg)
  ELSE w

\* POST /add: GitService.add stages the files given, or everything
XStage(files) ==
  /\ xcalls < MaxExecCalls /\ xreq.pc \in {"idle", "done"}
  /\ xcalls' = xcalls + 1
  /\ xreq' = [IdleX EXCEPT !.pc = "tool", !.op = "stage", !.kind = "stage",
                           !.files = files,
                           !.pathspec = IF SomeFiles(files) THEN files ELSE Files,
                           !.inv = <<Invocation("add",
                                                IF SomeFiles(files) THEN "files" ELSE ".")>>]
  /\ UNCHANGED <<xhead, wt, regvars, gitvars, branchvars, cfgvars, listvars>>

\* GET /diff
XDiff(sel) ==
  /\ xcalls < MaxExecCalls /\ xreq.pc \in {"idle", "done"}
  /\ xcalls' = xcalls + 1
  /\ xreq' = [IdleX EXCEPT !.pc = "tool", !.op = "diff", !.sel = sel,
                           !.inv = <<Invocation("diff", DiffArgs(sel))>>]
  /\ UNCHANGED <<xhead, wt, regvars, gitvars, branchvars, cfgvars, listvars>>

\* the tool ends the one invocation of the request and the route answers
XToolExit(ok, text) ==
  /\ xreq.pc = "tool" /\ xreq.op # "deleteBranches"
  /\ ok => text = {}
  /\ xreq' = [xreq EXCEPT !.pc = "done", !.inv[1] = Ended(@, ok, text),
                          !.returned = IF xreq.op = "log" /\ ok
                                       THEN Min(xreq.maxCount, LogLen) ELSE 0,
                          !.resp = Reply(xreq.op, Executor(xreq.op, ok, text))]
  /\ xhead' = IF xreq.op = "commit" /\ ok THEN xhead + 1 ELSE xhead
  /\ wt' = IF ok THEN Effect(xreq, wt) ELSE wt
  /\ UNCHANGED <<xcalls, regvars, gitvars, branchvars, cfgvars, listvars>>

\* POST /delete-branches
XDeleteBranches(names) ==
  /\ xcalls < MaxExecCalls /\ xreq.pc \in {"idle", "done"}
  /\ xcalls' = xcalls + 1
  /\ IF Len(names) = 0
     THEN xreq' = [IdleX EXCEPT !.pc = "done", !.op = "deleteBranches",
                                !.resp = BadRequest]
     ELSE xreq' = [IdleX EXCEPT !.pc = "tool", !.op = "deleteBranches", !.names = names,
                                !.inv = <<Invocation("branch -d", names[1])>>]
  /\ UNCHANGED <<xhead, wt, regvars, gitvars, branchvars, cfgvars, listvars>>

\* deleteLocalBranch resolves or rejects for the name the loop is at
XDeleteExit(ok, text) ==
  /\ xreq.pc = "tool" /\ xreq.op = "deleteBranches"
  /\ ok => text = {}
  /\ LET k == Len(xreq.results) + 1
         results == Append(xreq.results,
                           [name |-> xreq.names[k], success |-> ok,
                            error |-> IF ok THEN NoError ELSE ToolError(text)])
         inv == [xreq.inv EXCEPT ![k] = Ended(@, ok, text)]
     IN IF LoopGoesOn(xreq.names, results)
        THEN xreq' = [xreq EXCEPT !.results = results,
                        !.inv = Append(inv, Invocation("branch -d", xreq.names[k + 1]))]
        ELSE xreq' = [xreq EXCEPT !.pc = "done", !.results = results, !.inv = inv,
                        !.resp = [status |-> 200, success |-> TRUE, conflict |-> FALSE,
                                  error |-> NoError, body |-> "results",
                                  fields |-> {"success", "results"}]]
  /\ UNCHANGED <<xcalls, xhead, wt, regvars, gitvars, branchvars, cfgvars, listvars>>

InitExec ==
  /\ repos = <<>>
  /\ initialized = FALSE
  /\ initPromise = "null"
  /\ store = Absent
  /\ fs = {PA, PB}
  /\ nextId = 1
  /\ calls = 0
  /\ req = [r \in Slots |-> IdleReq]
  /\ gcalls = 0
  /\ greq = [g \in GSlots |-> IdleGit]
  /\ IdleExec /\ wt \in WorkTrees
  /\ IdleStale
  /\ IdleCfg /\ IdleList

NextExec ==
  \/ \E op \in ExecOps, arg \in ArgValues : XCall(op, arg)
  \/ \E limit \in LimitArgs : XLog(limit)
  \/ \E mode \in ModeArgs : XResetTo(mode)
  \/ \E kind \in {"unstage", "resetToCommit"}, commit \in {"", "c"}, mode \in ModeArgs,
        files \in SUBSET Files : XPostReset(kind, commit, mode, files)
  \/ \E files \in SUBSET Files : XStage(files)
  \/ \E sel \in Selectors : XDiff(sel)
  \/ \E names \in NameLists : XDeleteBranches(names)
  \/ \E ok \in BOOLEAN, text \in Texts : XToolExit(ok, text)
  \/ \E ok \in BOOLEAN, text \in Texts : XDeleteExit(ok, text)

SpecExec == InitExec /\ [][NextExec]_vars

(* ------------------- GitService.getStaleBranches ----------------------- *)
MaxStaleCalls == 2
MaxChanges == 2

\* git fetch <remote> --prune: the remote-tracking branches of that remote
\* become the branches the remote holds
FetchPrune(tr, remote, srv) ==
  {t \in tr : t[1] # remote} \cup {<<remote, n>> : n \in srv[remote]}
RemoteBranchNames_AnyRemote(tr, remote) == {t[2] : t \in tr}
\* the names under `${remote}/`, without the prefix
RemoteBranchNames(tr, remote) == {t[2] : t \in {u \in tr : u[1] = remote}}
\* the loop over localBranches.all
StaleOf(all, cur, remoteBranchNames) ==
  {b \in all : /\ b # cur
               /\ ToLowerCase(b) \notin protectedBranches
               /\ b \notin remoteBranchNames}
ReturnValue_Cached(prev, remote, staleBranches, currentBranch) ==
  IF prev.ok /\ prev.remote = remote THEN prev
  ELSE [ok |-> TRUE, remote |-> remote, staleBranches |-> staleBranches,
        currentBranch |-> currentBranch]
\* return { staleBranches, currentBranch: localBranches.current }
ReturnValue(prev, remote, staleBranches, currentBranch) ==
  [ok |-> TRUE, remote |-> remote, staleBranches |-> staleBranches,
   currentBranch |-> currentBranch]

\* GET /stale-branches reaches its route; the executor calls git.fetch
SCall(remote) ==
  /\ scalls < MaxStaleCalls /\ sreq.pc \in {"idle", "done"}
  /\ scalls' = scalls + 1
  /\ sreq' = [IdleS EXCEPT !.pc = "fetch", !.remote = remote]
  /\ sprev' = sreq.result
  /\ sclean' = (sreq.result.ok /\ ~schanged)
  /\ schanged' = FALSE
  /\ UNCHANGED <<local, current, tracking, server, changes, regvars, gitvars, execvars, cfgvars,
                 listvars>>

SFetched ==
  /\ sreq.pc = "fetch"
  /\ tracking' = FetchPrune(tracking, sreq.remote, server)
  /\ sreq' = [sreq EXCEPT !.pc = "branchLocal"]
  /\ UNCHANGED <<local, current, server, scalls, changes, sprev, schanged, sclean,
                 regvars, gitvars, execvars, cfgvars,
                 listvars>>

SBranchLocal ==
  /\ sreq.pc = "branchLocal"
  /\ sreq' = [sreq EXCEPT !.pc = "branchRemote", !.localRead = local,
                          !.currentRead = current]
  /\ UNCHANGED <<local, current, tracking, server, scalls, changes, sprev, schanged,
                 sclean, regvars, gitvars, execvars, cfgvars,
                 listvars>>

SBranchRemote ==
  /\ sreq.pc = "branchRemote"
  /\ sreq' = [sreq EXCEPT !.pc = "done", !.status = 200,
                !.result = ReturnValue(sprev, sreq.remote,
                                       StaleOf(sreq.localRead, sreq.currentRead,
                                               RemoteBranchNames(tracking, sreq.remote)),
                                       sreq.currentRead)]
  /\ UNCHANGED <<local, current, tracking, server, scalls, changes, sprev, schanged,
                 sclean, regvars, gitvars, execvars, cfgvars,
                 listvars>>

\* one of the three git calls fails: the executor rethrows, the route answers 500
SToolFail ==
  /\ sreq.pc \in {"fetch", "branchLocal", "branchRemote"}
  /\ sreq' = [sreq EXCEPT !.pc = "done", !.status = 500]
  /\ UNCHANGED <<local, current, tracking, server, scalls, changes, sprev, schanged,
                 sclean, regvars, gitvars, execvars, cfgvars,
                 listvars>>

\* the repositories change outside the request
Changed ==
  /\ changes < MaxChanges /\ changes' = changes + 1 /\ schanged' = TRUE
  /\ UNCHANGED <<tracking, scalls, sreq, sprev, sclean, regvars, gitvars, execvars, cfgvars,
                 listvars>>
RemotePush(r, n) ==
  /\ n \notin server[r] /\ server' = [server EXCEPT ![r] = @ \cup {n}]
  /\ Changed /\ UNCHANGED <<local, current>>
RemoteDelete(r, n) ==
  /\ n \in server[r] /\ server' = [server EXCEPT ![r] = @ \ {n}]
  /\ Changed /\ UNCHANGED <<local, current>>
LocalCreate(n) ==
  /\ n \notin local /\ local' = local \cup {n}
  /\ Changed /\ UNCHANGED <<current, server>>
LocalDelete(n) ==
  /\ n \in local /\ n # current /\ local' = local \ {n}
  /\ Changed /\ UNCHANGED <<current, server>>
LocalCheckout(n) ==
  /\ n \in local /\ n # current /\ current' = n
  /\ Changed /\ UNCHANGED <<local, server>>

NextStale ==
  \/ \E remote \in Remotes : SCall(remote)
  \/ SFetched
  \/ SBranchLocal
  \/ SBranchRemote
  \/ SToolFail
  \/ \E r \in Remotes, n \in Names : RemotePush(r, n)
  \/ \E r \in Remotes, n \in Names : RemoteDelete(r, n)
  \/ \E n \in Names : LocalCreate(n)
  \/ \E n \in Names : LocalDelete(n)
  \/ \E n \in Names : LocalCheckout(n)

InitStale == InitExec /\ wt = Scenario
SpecStale == InitStale /\ [][NextStale]_vars

(* --------------------------- PUT /api/config --------------------------- *)
\* { ...existing, ...req.body }
Merge(existing, body) ==
  [k \in (DOMAIN existing) \cup (DOMAIN body) |->
     IF k \in DOMAIN body THEN body[k] ELSE existing[k]]

\* update c arrives and awaits ensureDir and pathExists
CPut(c, body) ==
  /\ ccalls < MaxPuts /\ c = ccalls + 1
  /\ ccalls' = ccalls + 1
  /\ creq' = [creq EXCEPT ![c] = [IdleC EXCEPT !.pc = "pathExists", !.body = body]]
  /\ UNCHANGED <<cfile, regvars, gitvars, execvars, branchvars, listvars>>

\* pathExists settles: its answer is what the file system holds now
CExists(c) ==
  /\ creq[c].pc = "pathExists"
  /\ creq' = [creq EXCEPT ![c].pc = "exists", ![c].exists = (cfile.st # "absent")]
  /\ UNCHANGED <<cfile, ccalls, regvars, gitvars, execvars, branchvars, listvars>>

\* the handler goes on after pathExists: it calls readJson, or merges the
\* body into {} and calls writeJson, which opens the file for writing
CAfterExists(c) ==
  /\ creq[c].pc = "exists"
  /\ IF creq[c].exists
     THEN /\ creq' = [creq EXCEPT ![c].pc = "readJson"]
          /\ UNCHANGED cfile
     ELSE /\ creq' = [creq EXCEPT ![c].pc = "writeJson",
                                  ![c].snap = Merge(NoSettings, creq[c].body)]
          /\ cfile' = PartialFile
  /\ UNCHANGED <<ccalls, regvars, gitvars, execvars, branchvars, listvars>>

\* readJson settles: it yields what the file holds now; a file that is
\* absent or being written makes it fail
CRead(c) ==
  /\ creq[c].pc = "readJson"
  /\ IF cfile.st = "ok"
     THEN creq' = [creq EXCEPT ![c].pc = "read", ![c].existing = cfile.data]
     ELSE creq' = [creq EXCEPT ![c].pc = "readFailed"]
  /\ UNCHANGED <<cfile, ccalls, regvars, gitvars, execvars, branchvars, listvars>>

\* the handler goes on after readJson: the catch block answers 500, or the
\* body is merged into what was read and writeJson is called
CAfterRead(c) ==
  /\ creq[c].pc \in {"read", "readFailed"}
  /\ IF creq[c].pc = "read"
     THEN /\ creq' = [creq EXCEPT ![c].pc = "writeJson",
                                  ![c].snap = Merge(creq[c].existing, creq[c].body)]
          /\ cfile' = PartialFile
     ELSE /\ creq' = [creq EXCEPT ![c].pc = "done", ![c].status = 500]
          /\ UNCHANGED cfile
  /\ UNCHANGED <<ccalls, regvars, gitvars, execvars, branchvars, listvars>>

\* writeJson completed: the file holds what this update serialised
CWritten(c) ==
  /\ creq[c].pc = "writeJson"
  /\ cfile' = StoredFile(creq[c].snap)
  /\ creq' = [creq EXCEPT ![c].pc = "done", ![c].status = 200]
  /\ UNCHANGED <<ccalls, regvars, gitvars, execvars, branchvars, listvars>>

InitSettings ==
  /\ repos = <<>>
  /\ initialized = FALSE
  /\ initPromise = "null"
  /\ store = Absent
  /\ fs = {PA, PB}
  /\ nextId = 1
  /\ calls = 0
  /\ req = [r \in Slots |-> IdleReq]
  /\ gcalls = 0
  /\ greq = [g \in GSlots |-> IdleGit]
  /\ IdleExec /\ wt = Scenario
  /\ IdleStale
  /\ cfile \in InitFiles /\ NoPuts
  /\ IdleList

NextSettings ==
  \/ \E c \in CSlots, body \in Bodies : CPut(c, body)
  \/ \E c \in CSlots : CExists(c)
  \/ \E c \in CSlots : CAfterExists(c)
  \/ \E c \in CSlots : CRead(c)
  \/ \E c \in CSlots : CAfterRead(c)
  \/ \E c \in CSlots : CWritten(c)

SpecSettings == InitSettings /\ [][NextSettings]_vars

(* ----------------- RepoService.getAll and getById ---------------------- *)
MaxListCalls == 2
\* the result of the Validity Checker as an entry of a listing carries it
Validity(path) == IF IsValidRepo(path) THEN "valid" ELSE "invalid"
\* { ...repo, valid: isValid }
Entry(repo, valid) == [id |-> repo.id, path |-> repo.path, name |-> repo.name,
                       valid |-> valid]

\* GET /api/repos: getAll runs up to `await this.init()`
LCallList ==
  /\ lcalls < MaxListCalls /\ lreq.pc \in {"idle", "done"}
  /\ lcalls' = lcalls + 1
  /\ lreq' = [IdleL EXCEPT !.pc = "init", !.op = "list"]
  /\ UNCHANGED <<regvars, gitvars, execvars, branchvars, cfgvars>>

\* GET /api/repos/:id: getById runs up to `await this.init()`
LCallGet(id) ==
  /\ lcalls < MaxListCalls /\ lreq.pc \in {"idle", "done"}
  /\ lcalls' = lcalls + 1
  /\ lreq' = [IdleL EXCEPT !.pc = "init", !.op = "get", !.id = id]
  /\ UNCHANGED <<regvars, gitvars, execvars, branchvars, cfgvars>>

\* after init: getAll starts its loop and awaits isValidRepo for the first
\* record; getById finds the record and the route sends it as it is
LResume ==
  /\ lreq.pc = "init" /\ initialized
  /\ IF lreq.op = "list"
     THEN IF Len(repos) = 0
          THEN lreq' = [lreq EXCEPT !.pc = "done", !.status = 200]
          ELSE lreq' = [lreq EXCEPT !.pc = "isValidRepo", !.i = 1]
     ELSE LET index == FindIndexById(repos, lreq.id) IN
          IF index = 0
          THEN lreq' = [lreq EXCEPT !.pc = "done", !.status = 404]
          ELSE lreq' = [lreq EXCEPT !.pc = "done", !.status = 200,
                                    !.out = <<Entry(repos[index], "none")>>]
  /\ UNCHANGED <<lcalls, regvars, gitvars, execvars, branchvars, cfgvars>>

\* isValidRepo settles for the record the loop is at: the entry is pushed and
\* the loop goes to the next record, or the list is returned
LChecked ==
  /\ lreq.pc = "isValidRepo"
  /\ LET out == Append(lreq.out, Entry(repos[lreq.i], Validity(repos[lreq.i].path))) IN
     IF lreq.i < Len(repos)
     THEN lreq' = [lreq EXCEPT !.out = out, !.i = lreq.i + 1]
     ELSE lreq' = [lreq EXCEPT !.pc = "done", !.status = 200, !.out = out]
  /\ UNCHANGED <<lcalls, regvars, gitvars, execvars, branchvars, cfgvars>>

NextList ==
  \/ InitStart
  \/ InitExists
  \/ InitRead
  \/ InitReadFail
  \/ InitSaved
  \/ LCallList
  \/ \E id \in Ids \cup {3} : LCallGet(id)
  \/ LResume
  \/ LChecked
  \/ \E p \in Paths : ExternalDelete(p)

SpecList == InitGit /\ [][NextList]_vars

TypeOK ==
  /\ initialized \in BOOLEAN
  /\ nextId \in 1..(MaxCalls + 3)
  /\ calls \in 0..MaxCalls
  /\ fs \subseteq Paths

(* ------------------------------ claims --------------------------------- *)
SamePath(g1, g2) == greq[g1].path = greq[g2].path
InFlight(g) == greq[g].pc = "running"
Dispatched(g) == greq[g].pc \in {"running", "done"}

\* C1: no two mutating operations on the same repository path have their
\* underlying-tool invocations in flight at the same time.
NoConcurrentMutations ==
  \A g1, g2 \in GSlots :
    (g1 # g2 /\ InFlight(g1) /\ InFlight(g2) /\ SamePath(g1, g2))
      => ~(greq[g1].op \in MutatingOps /\ greq[g2].op \in MutatingOps)

\* C2: a read-only operation does not start its underlying-tool invocation
\* while a mutating operation on the same path is in flight.
ReadsWaitForMutations ==
  [][\A g \in GSlots :
       (greq[g].op \in ReadOnlyOps /\ greq[g].pc = "queued" /\ greq'[g].pc = "running")
         => ~\E g2 \in GSlots \ {g} :
               InFlight(g2) /\ greq[g2].op \in MutatingOps /\ SamePath(g, g2)]_vars

\* an operation on the path of g has ended, in whatever way
EndedOnPathOf(g) ==
  \E g2 \in GSlots \ {g} :
    greq[g2].pc = "done" /\ greq[g2].exit \in Exits /\ SamePath(g, g2)
\* nothing else is in flight on the path of g
AloneOnPath(g) == \A g2 \in GSlots \ {g} : SamePath(g, g2) => ~InFlight(g2)

\* C3: however an operation on a path ended (success, failure or conflict),
\* an operation waiting on the same path is not blocked by it and is
\* eventually dispatched to the underlying tool.
ReleasedOnEveryExit ==
  /\ [](\A g \in GSlots :
          (greq[g].pc = "queued" /\ EndedOnPathOf(g) /\ AloneOnPath(g))
            => ENABLED ToolStart(g))
  /\ \A g \in GSlots :
       (greq[g].pc = "queued" /\ EndedOnPathOf(g)) ~> Dispatched(g)

\* a status request is answered after a merge on the same path ended in conflict
StatusAfterConflict ==
  \E g1, g2 \in GSlots :
    /\ g1 # g2 /\ SamePath(g1, g2)
    /\ greq[g1].op = "merge" /\ greq[g1].resp = "conflict"
    /\ greq[g2].op = "status" /\ greq[g2].resp = "success"

\* an invocation is in flight on a path other than the path of g
BusyElsewhere(g) == \E g2 \in GSlots \ {g} : InFlight(g2) /\ ~SamePath(g, g2)

\* C4: an invocation in flight on another path, even one that never ends,
\* neither blocks nor delays the dispatch of an operation.
PathsIndependent ==
  /\ [](\A g \in GSlots :
          (greq[g].pc = "queued" /\ BusyElsewhere(g) /\ AloneOnPath(g))
            => ENABLED ToolStart(g))
  /\ \A g \in GSlots : (greq[g].pc = "queued" /\ BusyElsewhere(g)) ~> Dispatched(g)

\* two invocations on different paths are in flight together
TwoPathsInFlight ==
  \E g1, g2 \in GSlots : InFlight(g1) /\ InFlight(g2) /\ ~SamePath(g1, g2)

\* the directory at `path` is a git working copy
WorkingCopy(path) == path \in fs
\* the number of records whose path is `path`
CountPath(rs, path) == Cardinality({i \in 1..Len(rs) : rs[i].path = path})
\* request r, an `op`, takes the step that follows its await at `pc`
Resumes(r, op, pc) == req[r].op = op /\ req[r].pc = pc /\ req'[r].pc # pc
\* request r left the registry, in memory and in the store, as it was
LeavesRegistry == repos' = repos /\ store' = store

\* C5: no two registry records share the same normalized path.
UniqueNormalizedPaths ==
  \A i, j \in 1..Len(repos) : i # j => Trim(repos[i].path) # Trim(repos[j].path)

\* C6: an add whose (normalized) path is not a working copy fails with
\* InvalidPath and leaves the registry, in memory and in the store, unchanged;
\* the list length is unchanged.
AddInvalidPathRejected ==
  [][\A r \in Slots :
       (Resumes(r, "add", "validating") /\ ~WorkingCopy(req[r].path))
         => /\ req'[r].pc = "done" /\ req'[r].result = "InvalidPath"
            /\ LeavesRegistry
            /\ Len(repos') = Len(repos)]_vars

\* an add was refused with InvalidPath while the registry holds a record
AddRefusedInvalid ==
  \E r \in Slots : req[r].op = "add" /\ req[r].result = "InvalidPath" /\ Len(repos) > 0

\* C7 as stated: an add whose normalized path is the path of an existing
\* record fails with Duplicate, leaves the registry unchanged, and the
\* registry holds exactly one entry for that path.
AddExistingPathIsDuplicate ==
  [][\A r \in Slots :
       (Resumes(r, "add", "validating") /\ CountPath(repos, req[r].path) > 0)
         => /\ req'[r].pc = "done" /\ req'[r].result = "Duplicate"
            /\ LeavesRegistry
            /\ CountPath(repos', req[r].path) = 1]_vars

\* C7 as amended: an add whose normalized path is the path of an existing
\* record never succeeds and leaves the registry unchanged, so it adds no
\* entry for that path; it fails with Duplicate when the path is a working
\* copy at the time of the check and with InvalidPath when it is not.
AddExistingPathRefused ==
  [][\A r \in Slots :
       (Resumes(r, "add", "validating") /\ CountPath(repos, req[r].path) > 0)
         => /\ req'[r].pc = "done"
            /\ req'[r].result = IF WorkingCopy(req[r].path) THEN "Duplicate" ELSE "InvalidPath"
            /\ LeavesRegistry
            /\ CountPath(repos', req[r].path) = CountPath(repos, req[r].path)]_vars

\* an add was refused with Duplicate
AddRefusedDuplicate ==
  \E r \in Slots : req[r].op = "add" /\ req[r].result = "Duplicate" /\ Len(repos) > 0

\* the records other than the one with id `id`, in order
Without(rs, id) == SelectSeq(rs, LAMBDA rec : rec.id # id)

\* C8: remove of an existing id deletes exactly the record with that id and
\* leaves every other record unchanged; remove of an unknown id fails with
\* NotFound and changes nothing; no step of a remove touches a working copy.
RemoveDropsOnlyTheRecord ==
  [][\A r \in Slots :
       /\ (req[r].op = "remove" /\ req'[r] # req[r]) => fs' = fs
       /\ Resumes(r, "remove", "init") =>
            IF \E i \in 1..Len(repos) : repos[i].id = req[r].id
            THEN /\ repos' = Without(repos, req[r].id)
                 /\ Len(repos') = Len(repos) - 1
                 /\ req'[r].pc = "saving" /\ req'[r].snap = repos'
            ELSE /\ req'[r].pc = "done" /\ req'[r].result = "NotFound"
                 /\ LeavesRegistry]_vars

\* a remove succeeded and left another record in the registry, and the
\* working copies are still there
RemovedOneOfTwo ==
  \E r \in Slots :
    /\ req[r].op = "remove" /\ req[r].result = "ok"
    /\ Len(repos) > 0 /\ fs = {PA, PB}

\* the paths of the records, in order
PathsOf(rs) == [i \in 1..Len(rs) |-> rs[i].path]

\* C9: update sets a record's path only to a path that is a working copy; an
\* update with a path that is not fails with InvalidPath and changes no path;
\* update of an unknown id fails with NotFound.
UpdatePathChecked ==
  [][\A r \in Slots :
       /\ Resumes(r, "update", "validating") =>
            IF WorkingCopy(req[r].path)
            THEN /\ req'[r].pc = "saving" /\ req'[r].snap = repos'
                 /\ Len(repos') = Len(repos)
                 /\ \A i \in 1..Len(repos) :
                      repos'[i].path = IF repos[i].id = req[r].id THEN req[r].path
                                       ELSE repos[i].path
            ELSE /\ req'[r].pc = "done" /\ req'[r].result = "InvalidPath"
                 /\ PathsOf(repos') = PathsOf(repos)
                 /\ store' = store
       /\ Resumes(r, "update", "init") =>
            /\ PathsOf(repos') = PathsOf(repos)
            /\ (\A i \in 1..Len(repos) : repos[i].id # req[r].id)
                 => req'[r].pc = "done" /\ req'[r].result = "NotFound" /\ LeavesRegistry]_vars

\* an update was refused with InvalidPath
UpdateRefusedInvalid ==
  \E r \in Slots : req[r].op = "update" /\ req[r].result = "InvalidPath" /\ Len(repos) > 0

\* no registry request is in flight
Quiescent == \A r \in Slots : req[r].pc \in {"idle", "done"}

\* C10: when the last write in flight completes and no mutation is in flight,
\* the durable store holds the in-memory registry.
StoreMatchesMemory ==
  [][((\E r \in Slots : req[r].pc = "saving" /\ req'[r].pc = "done") /\ Quiescent')
       => store' = Stored(repos')]_vars

\* the registry holds a record with this id
Resolves(id) == \E i \in 1..Len(repos) : repos[i].id = id

\* C11: a request whose repository id resolves to no record is answered
\* NotFound without any tool invocation; a request that reaches the tool
\* resolved to a record and its handle carries that record's path.
UnresolvedIsNotFound ==
  \A g \in GSlots :
    /\ (greq[g].pc = "done" /\ greq[g].repoId # NoRepoId /\ ~Resolves(greq[g].repoId))
         => (greq[g].resp = "NotFound" /\ greq[g].exit = "none" /\ greq[g].path = NoPath)
    /\ greq[g].resp = "NotFound" => ~Resolves(greq[g].repoId)
    /\ (greq[g].pc \in {"queued", "running"} \/ greq[g].exit # "none")
         => \E i \in 1..Len(repos) :
               repos[i].id = greq[g].repoId /\ repos[i].path = greq[g].path
\* one request was refused for an unknown id while another one, resolved to
\* the second record, is running on that record's path
NotFoundBesideBound ==
  \E g1, g2 \in GSlots :
    /\ greq[g1].resp = "NotFound" /\ greq[g1].repoId = 3
    /\ greq[g2].pc = "running" /\ greq[g2].repoId = 2 /\ greq[g2].path = PB

\* the request being served is a commit without a message
EmptyCommit(x) == x.op = "commit" /\ x.arg = ""

\* C12: a commit request with an empty or missing message is answered with a
\* validation error at once: no tool invocation is made for it, no commit is
\* created and the count of commits stays as it was.
EmptyCommitRefusedFirst ==
  /\ [][(xcalls' # xcalls /\ EmptyCommit(xreq'))
          => (xreq'.pc = "done" /\ xreq'.resp.status = 400
              /\ xreq'.resp.error.kind = "required" /\ xhead' = xhead)]_vars
  /\ [](EmptyCommit(xreq) => (xreq.pc = "done" /\ xreq.inv = <<>> /\ ~xreq.resp.success))
\* a commit with a message created a commit, and the next commit request,
\* without a message, was refused
EmptyCommitAfterCommit ==
  EmptyCommit(xreq) /\ xreq.resp.status = 400 /\ xhead = 1 /\ xcalls = 2

\* the one tool invocation of the request failed
ToolFailed(x) == x.pc = "done" /\ Len(x.inv) = 1 /\ x.inv[1].res = "fail"

\* C13: status, checkout and commit classify a failure of the tool alike: a
\* failure text with the lock-file marker gives the lock-file error, and a
\* text without it is passed on as it is.
UniformLockRule ==
  (xreq.op \in {"status", "checkout", "commit"} /\ ToolFailed(xreq))
    => /\ xreq.resp.status = 500
       /\ IF Includes(xreq.inv[1].text, LockMarker)
          THEN xreq.resp.error = LockedError
          ELSE xreq.resp.error = ToolError(xreq.inv[1].text)

\* the answer to a request whose tool invocation ended with this text is one
\* of the three outcomes: success, conflict as a normal answer, generic error
ThreeOutcomes(x) ==
  LET i == x.inv[1]  r == x.resp IN
  /\ i.res = "ok"
       => (r.status = 200 /\ r.success /\ ~r.conflict /\ r.error = NoError)
  /\ (i.res = "fail" /\ Includes(i.text, ConflictMarker))
       => (r.status = 200 /\ ~r.success /\ r.conflict /\ r.error = ToolError(i.text))
  /\ (i.res = "fail" /\ ~Includes(i.text, ConflictMarker))
       => (r.status = 500 /\ ~r.success /\ ~r.conflict /\ r.error = ToolError(i.text))

\* C14: a merge that reached the tool has exactly three outcomes: success; a
\* failure with the conflict marker is answered normally with success false,
\* conflict true and the message; every other failure is a generic error
\* without the conflict flag.
MergeThreeOutcomes ==
  (xreq.op = "merge" /\ xreq.pc = "done" /\ Len(xreq.inv) = 1) => ThreeOutcomes(xreq)
\* a merge failed with a text that carries the conflict marker only
MergeConflicted ==
  /\ xreq.op = "merge" /\ ToolFailed(xreq) /\ xreq.inv[1].text = {ConflictMarker}
  /\ xreq.resp.conflict

\* C15: the initial rebase call has the three outcomes of merge, while
\* rebase-abort and rebase-continue never answer with a conflict outcome:
\* each of their failures, a further conflict included, is an error.
RebaseLikeMergeAbortContinuePlain ==
  /\ (xreq.op = "rebase" /\ xreq.pc = "done" /\ Len(xreq.inv) = 1) => ThreeOutcomes(xreq)
  /\ (xreq.op \in {"rebaseAbort", "rebaseContinue"} /\ xreq.pc = "done")
       => /\ ~xreq.resp.conflict
          /\ xreq.inv[1].res = "ok" => (xreq.resp.status = 200 /\ xreq.resp.success)
          /\ xreq.inv[1].res = "fail"
               => /\ xreq.resp.status = 500 /\ ~xreq.resp.success
                  /\ xreq.resp.error = ToolError(xreq.inv[1].text)
\* the second request, a rebase-continue, hit a further conflict, which was
\* answered as an error
ContinueHitConflict ==
  /\ xreq.op = "rebaseContinue" /\ ToolFailed(xreq)
  /\ Includes(xreq.inv[1].text, ConflictMarker) /\ xreq.resp.status = 500
  /\ xcalls = 2

\* C18: bulk branch deletion attempts every name whatever happened to the
\* earlier ones and answers with one entry per name, in the order of the
\* input: success true exactly when the deletion of that name succeeded,
\* success false with the error otherwise; the call itself succeeds.
DeleteReportsEveryName ==
  (xreq.op = "deleteBranches" /\ xreq.pc = "done" /\ xreq.names # <<>>)
    => /\ xreq.resp.status = 200 /\ xreq.resp.success
       /\ Len(xreq.results) = Len(xreq.names) /\ Len(xreq.inv) = Len(xreq.names)
       /\ \A k \in 1..Len(xreq.names) :
            /\ xreq.inv[k].arg = xreq.names[k] /\ xreq.inv[k].res \in {"ok", "fail"}
            /\ xreq.results[k].name = xreq.names[k]
            /\ xreq.results[k].success <=> xreq.inv[k].res = "ok"
            /\ xreq.results[k].error =
                 IF xreq.inv[k].res = "ok" THEN NoError ELSE ToolError(xreq.inv[k].text)
\* the deletion of the first of two names failed and the second was deleted
DeletedAfterFailure ==
  /\ xreq.op = "deleteBranches" /\ xreq.pc = "done" /\ xreq.names = <<"x", "y">>
  /\ ~xreq.results[1].success /\ xreq.results[2].success

\* C19: a diff request makes exactly one diff invocation, chosen by the
\* precedence commit pair, then single file, then staged only, then the full
\* working tree, for every combination of the selectors.
DiffPrecedence ==
  (xreq.op = "diff" /\ xreq.pc \in {"tool", "done"})
    => /\ Len(xreq.inv) = 1 /\ xreq.inv[1].cmd = "diff"
       /\ xreq.inv[1].arg =
            IF xreq.sel.commit1 /\ xreq.sel.commit2 THEN "commit1 commit2"
            ELSE IF xreq.sel.file THEN "file"
            ELSE IF xreq.sel.cached THEN "--cached"
            ELSE ""

\* C20: the log executor hands no failure on: when the tool fails, the log
\* request is answered with success and an empty result set.
LogNeverFails ==
  (xreq.op = "log" /\ xreq.pc = "done")
    => /\ xreq.resp.status = 200 /\ xreq.resp.success /\ xreq.resp.error = NoError
       /\ xreq.inv[1].res = "fail" => xreq.resp.body = "empty"
\* the tool failed on a log request, which was answered with an empty list
LogFailedEmpty ==
  xreq.op = "log" /\ ToolFailed(xreq) /\ xreq.resp.success /\ xreq.resp.body = "empty"

\* the stale-branch request was answered and no repository changed meanwhile
AnsweredUndisturbed == sreq.pc = "done" /\ sreq.status = 200 /\ ~schanged
\* the local branches that are neither current nor protected and have no
\* remote-tracking branch under the remote
StaleNow(remote) ==
  {b \in local : /\ b # current
                 /\ ToLowerCase(b) \notin {"main", "master", "develop", "dev"}
                 /\ <<remote, b>> \notin tracking}

\* C16: getStaleBranches completes the fetch with prune before it reads any
\* branch, and its result is exactly the local branches that are not current,
\* not protected by name (case-insensitive) and without a remote-tracking
\* branch under the remote; the current and the protected branches are left
\* out whatever the remote holds.
StaleAfterFetchPrune ==
  /\ [][(sreq.pc = "fetch" /\ sreq'.pc = "branchLocal")
          => /\ {t \in tracking' : t[1] = sreq.remote}
                  = {<<sreq.remote, n>> : n \in server[sreq.remote]}
             /\ sreq'.localRead = {} /\ sreq'.currentRead = ""]_vars
  /\ [](sreq.pc \in {"branchRemote"} \/ (sreq.pc = "done" /\ sreq.status = 200)
          => sreq.currentRead # "")
  /\ [](AnsweredUndisturbed
          => /\ sreq.result.staleBranches = StaleNow(sreq.remote)
             /\ sreq.result.currentBranch = current
             /\ \A b \in Names : <<sreq.remote, b>> \in tracking <=> b \in server[sreq.remote])
  /\ []((sreq.pc = "done" /\ sreq.status = 200)
          => \A b \in sreq.result.staleBranches :
               b # sreq.result.currentBranch /\ ToLowerCase(b) \notin protectedBranches)
\* origin lost Main; the request for origin then reported fix alone, which
\* only the other remote tracks, and neither Main nor the current branch
StaleFixOnly ==
  /\ AnsweredUndisturbed /\ sreq.remote = "origin"
  /\ "Main" \in local /\ "Main" \notin server["origin"] /\ <<"up", "fix">> \in tracking
  /\ sreq.result.staleBranches = {"fix"}

\* the request before this one was answered and asked for the same remote
Repeated == sprev.ok /\ sprev.remote = sreq.remote
\* what the repositories hold now
FreshAnswer(remote) ==
  [ok |-> TRUE, remote |-> remote, staleBranches |-> StaleNow(remote),
   currentBranch |-> current]

\* C17: getStaleBranches is deterministic and not cached: a request that
\* repeats the one before it, with no change to a repository since that one
\* began, gets the same stale list and current branch, and a request after a
\* change gets what the repositories hold now and not the earlier answer.
StaleDeterministicUncached ==
  (AnsweredUndisturbed /\ Repeated)
    => /\ sclean => sreq.result = sprev
       /\ sreq.result = FreshAnswer(sreq.remote)
\* a branch changed between two requests for the same remote and the second
\* answer differs from the first
StaleAnswerChanged ==
  AnsweredUndisturbed /\ Repeated /\ ~sclean /\ sreq.result # sprev

\* the number a limit of the query string stands for
LimitGiven(x) == x.limit # ""
LimitOf(x) == IF x.limit = "0" THEN 0 ELSE IF x.limit = "1" THEN 1 ELSE 2

\* C21: for every limit n the caller gives, 0 included, the log is asked of
\* the tool with maximum count n and at most n commits come back; the maximum
\* count is 100 only when the caller gives none.
LogLimitIsCallers ==
  (xreq.op = "log" /\ xreq.pc \in {"tool", "done"})
    => /\ LimitGiven(xreq) => (xreq.maxCount = LimitOf(xreq)
                                /\ xreq.returned <= LimitOf(xreq))
       /\ xreq.maxCount = 100 => ~LimitGiven(xreq)

\* the tool was asked to reset to the commit with this mode
ResetInvoked(x, mode) ==
  Len(x.inv) = 1 /\ x.inv[1].cmd = "reset" /\ x.inv[1].arg = ModeFlag(mode)

\* C22: reset to a commit uses the caller's mode, and mixed when the caller
\* gives none, when the executor is called directly as well as when it is
\* reached by a request.
ResetModeDefaultsMixed ==
  (xreq.kind \in {"direct", "resetToCommit"} /\ xreq.commit # ""
     /\ xreq.pc \in {"tool", "done"})
    => ResetInvoked(xreq, IF xreq.mode = "" THEN "mixed" ELSE xreq.mode)

\* C27: each resource reaches its own executor: a request to reset to a
\* commit invokes reset-to-commit with its commit and mode and never the
\* unstage executor, and a request to unstage never invokes reset-to-commit.
ResetRequestsReachOwnExecutor ==
  /\ (xreq.kind = "resetToCommit" /\ xreq.commit # "" /\ xreq.pc \in {"tool", "done"})
       => (xreq.op = "resetTo" /\ ResetInvoked(xreq, OrMixed(xreq.mode)))
  /\ xreq.kind = "resetToCommit" => xreq.op # "unstage"
  /\ xreq.kind = "unstage" => xreq.op # "resetTo"

\* the files a stage or unstage request is about: the list, or all files
\* when the list is empty or omitted
Listed(x) == IF x.files = {} THEN Files ELSE x.files
InIndex(state) == state \in {"staged", "added"}
Changed_NotInIndex(state) == state \in {"modified", "untracked"}

\* C23: a stage request changes only the files of its list: each of them
\* that has changes is staged afterwards and every other file keeps its
\* state; stage and unstage with an empty or omitted list act on all files.
StageTouchesOnlyListed ==
  [][(xreq.pc = "tool" /\ xreq'.pc = "done" /\ xreq'.inv[1].res = "ok"
        /\ xreq.kind \in {"stage", "unstage"})
       => \A f \in Files :
            IF f \notin Listed(xreq) THEN wt'[f] = wt[f]
            ELSE IF xreq.kind = "stage"
            THEN /\ Changed_NotInIndex(wt[f]) => InIndex(wt'[f])
                 /\ ~Changed_NotInIndex(wt[f]) => wt'[f] = wt[f]
            ELSE /\ InIndex(wt[f]) => Changed_NotInIndex(wt'[f])
                 /\ ~InIndex(wt[f]) => wt'[f] = wt[f]]_vars
\* stage(['a.txt']) on a.txt modified and b.txt untracked: a.txt is staged
\* and b.txt is still untracked
StagedOnlyA ==
  /\ xreq.kind = "stage" /\ xreq.files = {"a.txt"} /\ xreq.pc = "done"
  /\ xreq.inv[1].res = "ok"
  /\ wt["a.txt"] = "staged" /\ wt["b.txt"] = "untracked"

\* C24: every answer carries a success flag and every failure a message; a
\* merge or rebase that ends in conflict is answered with success false and
\* a conflict flag, and a generic failure never carries the conflict flag.
AnswersCarryFlags ==
  xreq.pc = "done"
    => LET r == xreq.resp IN
       /\ "success" \in r.fields
       /\ ~r.success => (r.fields \cap {"error", "message"} # {} /\ r.error # NoError)
       /\ (xreq.op \in ConflictOps /\ ToolFailed(xreq)
             /\ Includes(xreq.inv[1].text, ConflictMarker))
            => (~r.success /\ r.conflict /\ "conflict" \in r.fields)
       /\ r.status >= 400 => (~r.conflict /\ "conflict" \notin r.fields)
       /\ r.conflict <=> "conflict" \in r.fields
\* a rebase ended in conflict and was answered with the conflict flag
RebaseConflictFlagged ==
  /\ xreq.op = "rebase" /\ ToolFailed(xreq) /\ xreq.resp.status = 200
  /\ xreq.resp.fields = {"success", "conflict", "message"}

\* no settings update is under way and the file is whole
SettingsAtRest ==
  cfile.st = "ok" /\ \A c \in CSlots : creq[c].pc \in {"idle", "done"}
\* the updates that were answered with success and gave a value for key k
Setters(k) ==
  {c \in CSlots : creq[c].pc = "done" /\ creq[c].status = 200 /\ k \in DOMAIN creq[c].body}

\* C25: settings update is a durable last-write-wins merge: after any
\* updates, overlapping ones included, each key that some update set holds
\* a value given by an update that set it, and a key that no update set
\* holds the value it had before.
SettingsKeepEveryKey ==
  SettingsAtRest
    => \A k \in Keys :
         IF Setters(k) # {}
         THEN /\ k \in DOMAIN cfile.data
              /\ cfile.data[k] \in {creq[c].body[k] : c \in Setters(k)}
         ELSE k \in DOMAIN cfile.data => cfile.data[k] = "light"

\* C26: validity is not stored but computed on every listing and every id
\* resolution, which report for each record the result of the Validity
\* Checker at that time; a listing has one entry per record, in registry
\* order, and neither changes the registry or the durable store.
ValidityReportedFresh ==
  /\ []((lreq.pc = "done" /\ lreq.status = 200 /\ lreq.op = "list")
          => /\ Len(lreq.out) = Len(repos)
             /\ \A k \in 1..Len(repos) :
                  lreq.out[k].id = repos[k].id /\ lreq.out[k].valid \in {"valid", "invalid"}
             /\ Len(repos) > 0
                  => lreq.out[Len(repos)].valid = Validity(repos[Len(repos)].path))
  /\ []((lreq.pc = "done" /\ lreq.status = 200 /\ lreq.op = "get")
          => lreq.out[1].valid = Validity(lreq.out[1].path))
  /\ [][lreq' # lreq => (repos' = repos /\ store' = store)]_vars
  /\ [](\A k \in 1..Len(repos) : DOMAIN repos[k] = {"id", "path", "name"})

\* how far _doInit has come
Stage(p) ==
  IF p = "null" THEN 0 ELSE IF p = "pathExists" THEN 1 ELSE IF p = "settled" THEN 3 ELSE 2

\* C28: initialization happens once: however many registry calls arrive
\* before the first load has finished, _doInit runs through its stages at
\* most once, and no call goes on to read or change the registry in memory
\* before the load has completed.
InitializedOnce ==
  [][/\ Stage(initPromise') >= Stage(initPromise)
     /\ initialized => initialized'
     /\ \A r \in Slots : (req[r].pc = "init" /\ req'[r].pc # "init") => initialized
     /\ (~initialized /\ repos' # repos) => initPromise \in {"pathExists", "readJson"}]_vars
\* two calls wait for the load, which is reading the store
TwoCallsAwaitLoad ==
  /\ initPromise = "readJson" /\ ~initialized
  /\ \E r1, r2 \in Slots : r1 # r2 /\ req[r1].pc = "init" /\ req[r2].pc = "init"

\* no other request is under way
OnlyRequest(r) == \A q \in Slots \ {r} : req[q].pc \in {"idle", "done"}

\* C29: a failed update leaves the registry unchanged. When the update of
\* request r is rejected with InvalidPath while no other request is under
\* way and the store holds a complete document, the registry in memory is
\* still the stored one: the supplied name is not applied.
FailedUpdateChangesNothing ==
  [][\A r \in Slots :
       (/\ req[r].op = "update" /\ req[r].pc = "validating"
        /\ req'[r].result = "InvalidPath"
        /\ OnlyRequest(r) /\ store.st = "ok")
       => repos' = store.data]_vars

RecordIds(rs) == {rs[i].id : i \in 1..Len(rs)}

\* C30: records leave the durable store only through remove. While no
\* remove has been requested, a document that a request begins to write
\* holds every record of the complete document it replaces, also after
\* reading the store has failed during initialization.
StoredRecordsKept ==
  [][\A r \in Slots :
       (/\ \A q \in Slots : req[q].op # "remove"
        /\ store.st = "ok"
        /\ req[r].pc # "saving" /\ req'[r].pc = "saving")
       => RecordIds(store.data) \subseteq RecordIds(req'[r].snap)]_vars
====
